---- MODULE Spec2Model ----
(***************************************************************************)
(* Q*ISMEL action-value engine of Cinemacloud/aiware.                      *)
(*                                                                         *)
(*   ActionSelectionModule (src/nst-QISMEL-mm/ActionSelectionModule.ts)    *)
(*     qismeValues : Map<string, number>, chooseAction, updateQISMEL       *)
(*   AGI (src/nst-qismel-mm.d.ts)                                          *)
(*     updateQISMEL, run, generateStateActionKey                           *)
(*   IntegratedAgenticStrangeLoopAGI (src/unnamed/part_000)                *)
(*     run and the synchronous helpers it calls                            *)
(*   NST, NeuroSymbolicTensor (src/nst-qismel-mm.d.ts,                     *)
(*   src/nst-QISMEL-mm/types.ts)                                           *)
(*     get, set, transpose, normalize, add, multiply, concatenate, stack,  *)
(*     slice, and PerceptionModule.perceive                                *)
(*   nnQCQuantumCircuit, nnQCQuantumSimulator (src/nnqc.d.ts)              *)
(*     addQubit, addGate, simulate                                         *)
(*                                                                         *)
(* Numbers.  The engine's values are JavaScript numbers.  A value v is     *)
(* held here as the integer v * Scale; the weights are held in tenths      *)
(* (0.1 is 1, 0.9 is 9).  Rewards and signals are whole multiples of       *)
(* Scale and every update divides by at most 100, so with at most          *)
(* MaxUpdates table writes every division below is exact.                  *)
(***************************************************************************)
EXTENDS Integers, Sequences, FiniteSets, TLC

\* Number of table writes (and of loop cycles) a behaviour may contain.
MaxUpdates == 2

Scale == 100 ^ MaxUpdates

----------------------------------------------------------------------------
(* Optional values: a property that is undefined, or a rejected promise.   *)

None == << >>

Some(x) == << x >>

IsSome(o) == Len(o) = 1

----------------------------------------------------------------------------
(* Strings.  A key is a sequence of tokens: one token per character for    *)
(* numbers and punctuation, one token per label (action, sensor name).     *)

Digits == << "0", "1", "2", "3", "4", "5", "6", "7", "8", "9" >>

RECURSIVE NatToString(_)
NatToString(n) ==
    IF n < 10 THEN << Digits[n + 1] >>
    ELSE NatToString(n \div 10) \o << Digits[(n % 10) + 1] >>

\* Number.prototype.toString for an integer-valued number.
NumberToString(n) ==
    IF n < 0 THEN << "-" >> \o NatToString(-n) ELSE NatToString(n)

\* Array.prototype.join(',') on an array of numbers.
RECURSIVE Join(_)
Join(arr) ==
    IF Len(arr) = 0 THEN << >>
    ELSE IF Len(arr) = 1 THEN NumberToString(arr[1])
    ELSE NumberToString(arr[1]) \o << "," >> \o Join(Tail(arr))

\* JSON.stringify of a plain object of numbers; props is the object's
\* properties in insertion order, each << name, value >>.
RECURSIVE StringifyProps(_)
StringifyProps(props) ==
    IF Len(props) = 0 THEN << >>
    ELSE << "\"", props[1][1], "\"", ":" >> \o NumberToString(props[1][2])
         \o (IF Len(props) = 1 THEN << >> ELSE << "," >>)
         \o StringifyProps(Tail(props))

JSONStringify(props) == << "{" >> \o StringifyProps(props) \o << "}" >>

----------------------------------------------------------------------------
(* States handed to the engine.  numericalData, imageEmbeddings,           *)
(* audioEmbeddings and sensorData are the properties the key function      *)
(* reads; each is None when the property is undefined on the object.       *)

NSTState(numericalData, imageEmbeddings, audioEmbeddings, sensorData) ==
    [ numericalData   |-> numericalData,
      imageEmbeddings |-> imageEmbeddings,
      audioEmbeddings |-> audioEmbeddings,
      sensorData      |-> sensorData ]

StateA == NSTState(Some(<< 1, 2 >>), Some(<< 3 >>), None, None)

StateB == NSTState(Some(<< 2, 1 >>), None, None,
                   Some(<< << "temperature", 4 >>, << "humidity", 5 >> >>))

\* An object without a numericalData property (an NST of types.ts holds
\* its payload in `data`).
StateNoPayload == NSTState(None, Some(<< 3 >>), None, None)

States == { StateA, StateB, StateNoPayload }

possibleActions == << "move", "grab", "drop", "use" >>

Actions == { possibleActions[i] : i \in 1 .. Len(possibleActions) }

\* The arguments a direct caller passes: the first and the last action, any
\* state as s, and as sPrime a state with a payload or one without.
CalledActions == { possibleActions[1], possibleActions[Len(possibleActions)] }

CalledNextStates == { StateA, StateNoPayload }

----------------------------------------------------------------------------
(* The weights set by the constructor, in tenths.                          *)

learningRate == 1

discountFactor == 9

intrinsicWeight == 1

symbolicWeight == 1

metaLearningWeight == 1

evolutionaryWeight == 1

latentLearningWeight == 1

----------------------------------------------------------------------------
(* Signal providers.  Each is an opaque function of the engine; a call     *)
(* returns a number or throws.  One run of the five providers is a         *)
(* function from provider to outcome.                                      *)

Providers ==
    { "intrinsicRewardFn", "symbolicReasoningFn", "metaLearningFn",
      "evolutionaryOptimizationFn", "latentLearningFn" }

Returns(v) == [ raised |-> FALSE, value |-> v ]

Throws == [ raised |-> TRUE, value |-> 0 ]

AllReturn(v) == [ p \in Providers |-> Returns(v) ]

\* The outcomes the model draws from: every provider returns 0, every
\* provider returns 1, or one provider throws.
SignalRuns ==
    { AllReturn(0), AllReturn(Scale) }
    \cup { [ AllReturn(0) EXCEPT ![p] = Throws ] : p \in Providers }

NoSignals == AllReturn(0)

Rewards == { -Scale, Scale }

----------------------------------------------------------------------------
(* The key function.                                                       *)

Raised == [ raised |-> TRUE, key |-> << >> ]

\* AGI.generateStateActionKey: s.numericalData.join(',') + '-' + a, then
\* each optional part behind a '-'.  Reading .join of an undefined
\* numericalData throws a TypeError.
generateStateActionKey(s, a) ==
    IF ~IsSome(s.numericalData) THEN Raised
    ELSE [ raised |-> FALSE,
           key |-> Join(s.numericalData[1]) \o << "-", a >>
                   \o (IF IsSome(s.imageEmbeddings)
                       THEN << "-" >> \o Join(s.imageEmbeddings[1]) ELSE << >>)
                   \o (IF IsSome(s.audioEmbeddings)
                       THEN << "-" >> \o Join(s.audioEmbeddings[1]) ELSE << >>)
                   \o (IF IsSome(s.sensorData)
                       THEN << "-" >> \o JSONStringify(s.sensorData[1]) ELSE << >>) ]

----------------------------------------------------------------------------
(* The value table: a function from the keys present to their values.      *)

EmptyMap == [ k \in {} |-> 0 ]

\* this.qismeValues.get(key) || 0
GetOrZero(table, key) == IF key \in DOMAIN table THEN table[key] ELSE 0

\* A Map bounded to one entry: storing a new key evicts the old entry.
MapSetEvicting(table, key, value) == [ k \in { key } |-> value ]

\* this.qismeValues.set(key, value)
MapSet(table, key, value) ==
    [ k \in DOMAIN table \cup { key } |-> IF k = key THEN value ELSE table[k] ]

----------------------------------------------------------------------------
(* chooseAction.                                                           *)

\* qValue >= maxQValue: the last of several maximal actions would win.
ExceedsOrEquals(qValue, maxQValue) ==
    ~IsSome(maxQValue) \/ qValue >= maxQValue[1]

\* qValue > maxQValue, where maxQValue starts at -Infinity (None).
Exceeds(qValue, maxQValue) ==
    ~IsSome(maxQValue) \/ qValue > maxQValue[1]

\* The for loop of chooseAction from position i on, with the locals
\* bestAction and maxQValue.
RECURSIVE ScanActions(_, _, _, _, _)
ScanActions(table, state, i, bestAction, maxQValue) ==
    IF i > Len(possibleActions)
    THEN [ raised |-> FALSE, action |-> bestAction ]
    ELSE LET k == generateStateActionKey(state, possibleActions[i])
         IN  IF k.raised
             THEN [ raised |-> TRUE, action |-> "" ]
             ELSE LET qValue == GetOrZero(table, k.key)
                  IN  IF Exceeds(qValue, maxQValue)
                      THEN ScanActions(table, state, i + 1,
                                       possibleActions[i], Some(qValue))
                      ELSE ScanActions(table, state, i + 1,
                                       bestAction, maxQValue)

chooseAction(table, state) ==
    ScanActions(table, state, 1, possibleActions[1], None)

\* A lookup that stores the default under a key it does not find.
MapGetInserting(table, key) == MapSet(table, key, GetOrZero(table, key))

\* The Map after this.qismeValues.get(key): a lookup stores nothing.
MapGet(table, key) == table

\* The table as the for loop of chooseAction leaves it, from position i on:
\* one lookup per action, up to the first key that cannot be built.
RECURSIVE ScannedTable(_, _, _)
ScannedTable(table, state, i) ==
    IF i > Len(possibleActions) THEN table
    ELSE LET k == generateStateActionKey(state, possibleActions[i])
         IN  IF k.raised THEN table
             ELSE ScannedTable(MapGet(table, k.key), state, i + 1)

----------------------------------------------------------------------------
(* updateQISMEL.                                                           *)

\* max over a' of Q(sPrime, a'), an absent key counting as 0.
RECURSIVE MaxFrom(_, _, _, _)
MaxFrom(table, sPrime, i, best) ==
    IF i > Len(possibleActions)
    THEN [ raised |-> FALSE, value |-> best ]
    ELSE LET k == generateStateActionKey(sPrime, possibleActions[i])
         IN  IF k.raised
             THEN [ raised |-> TRUE, value |-> 0 ]
             ELSE LET q == GetOrZero(table, k.key)
                  IN  MaxFrom(table, sPrime, i + 1, IF q > best THEN q ELSE best)

getMaxNextQISMEL(table, sPrime) ==
    LET k == generateStateActionKey(sPrime, possibleActions[1])
    IN  IF k.raised
        THEN [ raised |-> TRUE, value |-> 0 ]
        ELSE MaxFrom(table, sPrime, 2, GetOrZero(table, k.key))

AnyThrows(sig) == \E p \in Providers : sig[p].raised

\* The update rule without the discount factor on the next-state maximum.
NewQISMELUndiscounted(currentQISMEL, r, maxNextQISMEL, sig) ==
    currentQISMEL
    + (learningRate * (10 * r + 10 * maxNextQISMEL - 10 * currentQISMEL)) \div 100
    + (intrinsicWeight * sig["intrinsicRewardFn"].value) \div 10
    + (symbolicWeight * sig["symbolicReasoningFn"].value) \div 10
    + (metaLearningWeight * sig["metaLearningFn"].value) \div 10
    + (evolutionaryWeight * sig["evolutionaryOptimizationFn"].value) \div 10
    + (latentLearningWeight * sig["latentLearningFn"].value) \div 10

\* newQISMEL; the weights are tenths, so a * (r + g * m - c) is
\* learningRate * (10 r + discountFactor * m - 10 c) / 100.
NewQISMEL(currentQISMEL, r, maxNextQISMEL, sig) ==
    currentQISMEL
    + (learningRate
         * (10 * r + discountFactor * maxNextQISMEL - 10 * currentQISMEL)) \div 100
    + (intrinsicWeight * sig["intrinsicRewardFn"].value) \div 10
    + (symbolicWeight * sig["symbolicReasoningFn"].value) \div 10
    + (metaLearningWeight * sig["metaLearningFn"].value) \div 10
    + (evolutionaryWeight * sig["evolutionaryOptimizationFn"].value) \div 10
    + (latentLearningWeight * sig["latentLearningFn"].value) \div 10

UpdateFailed(table) ==
    [ raised |-> TRUE, table |-> table, key |-> << >>, current |-> 0, new |-> 0 ]

UpdateDone(table, key, current, new) ==
    [ raised |-> FALSE, table |-> MapSet(table, key, new),
      key |-> key, current |-> current, new |-> new ]

\* updateQISMEL storing the entry before it calls the providers: a call
\* that then throws leaves the entry behind.
updateQISMELEagerWrite(table, s, a, r, sPrime, sig) ==
    LET k == generateStateActionKey(s, a)
    IN  IF k.raised THEN UpdateFailed(table)
        ELSE LET currentQISMEL == GetOrZero(table, k.key)
                 maxNext == getMaxNextQISMEL(table, sPrime)
                 early == MapSet(table, k.key, currentQISMEL)
             IN  IF maxNext.raised \/ AnyThrows(sig) THEN UpdateFailed(early)
                 ELSE UpdateDone(table, k.key, currentQISMEL,
                                 NewQISMEL(currentQISMEL, r, maxNext.value, sig))

\* updateQISMEL with each provider call wrapped in a try/catch that yields 0.
updateQISMELSwallow(table, s, a, r, sPrime, sig) ==
    LET k == generateStateActionKey(s, a)
        caught == [ p \in Providers |->
                      IF sig[p].raised THEN Returns(0) ELSE sig[p] ]
    IN  IF k.raised THEN UpdateFailed(table)
        ELSE LET currentQISMEL == GetOrZero(table, k.key)
                 maxNext == getMaxNextQISMEL(table, sPrime)
             IN  IF maxNext.raised THEN UpdateFailed(table)
                 ELSE UpdateDone(table, k.key, currentQISMEL,
                                 NewQISMEL(currentQISMEL, r, maxNext.value, caught))

\* updateQISMEL whose next-state lookup stores the default 0 under the
\* first next-state key when that key is absent.
updateQISMELInsertDefaults(table, s, a, r, sPrime, sig) ==
    LET k == generateStateActionKey(s, a)
    IN  IF k.raised THEN UpdateFailed(table)
        ELSE LET currentQISMEL == GetOrZero(table, k.key)
                 maxNext == getMaxNextQISMEL(table, sPrime)
                 nk == generateStateActionKey(sPrime, possibleActions[1]).key
                 filled == MapSet(table, nk, GetOrZero(table, nk))
             IN  IF maxNext.raised \/ AnyThrows(sig) THEN UpdateFailed(table)
                 ELSE UpdateDone(filled, k.key, currentQISMEL,
                                 NewQISMEL(currentQISMEL, r, maxNext.value, sig))

\* updateQISMEL reading the current value under the bare action label, a
\* key no entry is stored under, so that every update starts from 0.
updateQISMELReadsWrongKey(table, s, a, r, sPrime, sig) ==
    LET k == generateStateActionKey(s, a)
    IN  IF k.raised THEN UpdateFailed(table)
        ELSE LET currentQISMEL == GetOrZero(table, << a >>)
                 maxNext == getMaxNextQISMEL(table, sPrime)
             IN  IF maxNext.raised \/ AnyThrows(sig) THEN UpdateFailed(table)
                 ELSE UpdateDone(table, k.key, currentQISMEL,
                                 NewQISMEL(currentQISMEL, r, maxNext.value, sig))

\* The result of one call: whether it threw, the table it leaves, and for
\* a call that returned the key written, the value read and the value
\* written.
updateQISMEL(table, s, a, r, sPrime, sig) ==
    LET k == generateStateActionKey(s, a)
    IN  IF k.raised THEN UpdateFailed(table)
        ELSE LET currentQISMEL == GetOrZero(table, k.key)
                 maxNext == getMaxNextQISMEL(table, sPrime)
             IN  IF maxNext.raised \/ AnyThrows(sig) THEN UpdateFailed(table)
                 ELSE UpdateDone(table, k.key, currentQISMEL,
                                 NewQISMEL(currentQISMEL, r, maxNext.value, sig))

----------------------------------------------------------------------------
(* The inputs of the key function called on its own: states whose numeric  *)
(* payload, embeddings and sensor object vary one by one.  A sensor object *)
(* is its properties in insertion order, which is the order JSON.stringify *)
(* writes them in.                                                         *)

KeyNumericalData == { << 1, 2 >>, << 1, 3 >> }

KeyImageEmbeddings == { None, Some(<< 3 >>), Some(<< 4 >>) }

KeyAudioEmbeddings == { None, Some(<< 3 >>) }

KeySensorData ==
    { None,
      Some(<< << "temperature", 4 >>, << "humidity", 5 >> >>),
      Some(<< << "humidity", 5 >>, << "temperature", 4 >> >>),
      Some(<< << "temperature", 4 >>, << "humidity", 6 >> >>) }

KeyStates ==
    { NSTState(Some(n), i, u, d) :
        n \in KeyNumericalData, i \in KeyImageEmbeddings,
        u \in KeyAudioEmbeddings, d \in KeySensorData }

KeyInputs == { [ s |-> s, a |-> a ] : s \in KeyStates, a \in CalledActions }

\* The properties of a sensor object whatever order they were inserted in.
SensorValues(props) == { props[i] : i \in 1 .. Len(props) }

\* What a (state, action) pair holds: payload, action label, embeddings
\* and sensor values.
Content(s, a) ==
    [ numericalData   |-> s.numericalData,
      action          |-> a,
      imageEmbeddings |-> s.imageEmbeddings,
      audioEmbeddings |-> s.audioEmbeddings,
      sensorData      |-> IF IsSome(s.sensorData)
                          THEN Some(SensorValues(s.sensorData[1])) ELSE None ]

----------------------------------------------------------------------------
(* A Map as JavaScript keeps it: its entries << key, value >> in the order *)
(* the keys were first set.                                                *)

OrderedMapHas(map, key) == \E i \in 1 .. Len(map) : map[i][1] = key

\* A lookup by position: whatever the key, the entry set last.
OrderedMapGetNewest(map, key) == map[Len(map)][2]

\* Map.prototype.get for a key that is present.
OrderedMapGet(map, key) ==
    map[CHOOSE i \in 1 .. Len(map) : map[i][1] = key][2]

\* Map.prototype.set: a key that is present keeps its place.
OrderedMapSet(map, key, value) ==
    IF OrderedMapHas(map, key)
    THEN [ i \in 1 .. Len(map) |->
             IF map[i][1] = key THEN << key, value >> ELSE map[i] ]
    ELSE Append(map, << key, value >>)

\* The table chooseAction and updateQISMEL read through get.
Lookups(map) ==
    [ k \in { map[i][1] : i \in 1 .. Len(map) } |-> OrderedMapGet(map, k) ]

\* The entries of a Map whatever order they were set in.
Contents(map) == { map[i] : i \in 1 .. Len(map) }

Engines == { 1, 2 }

\* What the callers of the engine pair pass: updates of StateA under the
\* first or the last action with StateB as next state, selections on
\* either state, and as a second argument of chooseAction the built-in
\* action list or an empty one.
PairStates == { StateA, StateB }

SuppliedActionSets == { possibleActions, << >> }

NewEngine == [ qismeValues |-> << >>, updates |-> 0 ]

NoPick ==
    [ made |-> FALSE, state |-> StateA, actionSet |-> << >>,
      result |-> [ e \in Engines |-> [ raised |-> FALSE, action |-> "" ] ] ]

----------------------------------------------------------------------------
(* Tensors.  A number of a tensor (an element of its typed array, a        *)
(* component of its shape, a flat index) is Num(n) or NaN.  An element v   *)
(* is held as the integer v * Unit, and a quotient or a product of two     *)
(* elements is rounded down to a multiple of 1 / Unit, as a Float32Array   *)
(* rounds to a float; shape components and indices are whole numbers.      *)

\* The resolution of tensor elements: 1 / Unit is the smallest step.
Unit == 12

NaN == << >>

Num(n) == << n >>

IsNaN(x) == x = NaN

Plus(x, y) == IF IsNaN(x) \/ IsNaN(y) THEN NaN ELSE Num(x[1] + y[1])

Minus(x, y) == IF IsNaN(x) \/ IsNaN(y) THEN NaN ELSE Num(x[1] - y[1])

\* The product of two whole numbers.
Times(x, y) == IF IsNaN(x) \/ IsNaN(y) THEN NaN ELSE Num(x[1] * y[1])

\* The product of two elements.
TimesElements(x, y) ==
    IF IsNaN(x) \/ IsNaN(y) THEN NaN ELSE Num((x[1] * y[1]) \div Unit)

\* The quotient x / y of two elements with x >= 0 and y >= 0; 0 / 0 is NaN
\* (normalize divides value - min by max - min, which is 0 only when
\* value - min is).
Divide(x, y) ==
    IF IsNaN(x) \/ IsNaN(y) THEN NaN
    ELSE IF y[1] = 0 THEN NaN
    ELSE Num((x[1] * Unit) \div y[1])

\* x < y, which is false when either is NaN.
LessThan(x, y) == ~IsNaN(x) /\ ~IsNaN(y) /\ x[1] < y[1]

\* new Float32Array(length): length zeros.
Zeros(length) == [ k \in 1 .. length |-> Num(0) ]

\* array[i] of a plain array, 0-based: undefined, which counts as NaN in
\* arithmetic and compares false, past its end.
ArrayAt(array, i) ==
    IF i >= 0 /\ i < Len(array) THEN array[i + 1] ELSE NaN

\* data[index] of a typed array: undefined (None) unless index is a whole
\* number within the array.
TypedArrayGet(data, index) ==
    IF ~IsNaN(index) /\ index[1] >= 0 /\ index[1] < Len(data)
    THEN Some(data[index[1] + 1]) ELSE None

\* What a read of the typed array stores into another: undefined is NaN.
Stored(read) == IF IsSome(read) THEN read[1] ELSE NaN

\* data[index] = value writing one place further on.
TypedArraySetShifted(data, index, value) ==
    IF ~IsNaN(index) /\ index[1] + 1 >= 0 /\ index[1] + 1 < Len(data)
    THEN [ data EXCEPT ![index[1] + 2] = value ] ELSE data

\* data[index] = value of a typed array: no effect unless index is a whole
\* number within the array.
TypedArraySet(data, index, value) ==
    IF ~IsNaN(index) /\ index[1] >= 0 /\ index[1] < Len(data)
    THEN [ data EXCEPT ![index[1] + 1] = value ] ELSE data

Tensor(cls, shape, data) == [ cls |-> cls, shape |-> shape, data |-> data ]

\* The tensor a transforming method returns.
NeuroSymbolicTensor(data, shape) == Tensor("NeuroSymbolicTensor", shape, data)

RECURSIVE Product(_)
Product(shape) ==
    IF Len(shape) = 0 THEN Num(1) ELSE Times(shape[1], Product(Tail(shape)))

RECURSIVE Reduce(_, _, _, _)
Reduce(shape, coordinates, idx, acc) ==
    IF idx >= Len(coordinates) THEN acc
    ELSE Reduce(shape, coordinates, idx + 1,
                Plus(Times(acc, ArrayAt(shape, idx)), Num(coordinates[idx + 1])))

\* A reduction that adds the coordinates up, every dimension counted as 1.
coordinatesToIndexUnstrided(t, coordinates) ==
    Reduce([ k \in 1 .. Len(t.shape) |-> Num(1) ], coordinates, 0, Num(0))

\* coordinates.reduce((acc, val, idx) => acc * this.shape[idx] + val, 0)
coordinatesToIndex(t, coordinates) == Reduce(t.shape, coordinates, 0, Num(0))

\* A comparison of the ranks alone.
isSameRank(t, otherTensor) == Len(t.shape) = Len(otherTensor.shape)

isSameShape(t, otherTensor) ==
    /\ Len(t.shape) = Len(otherTensor.shape)
    /\ \A i \in 1 .. Len(t.shape) :
         ~IsNaN(t.shape[i]) /\ t.shape[i] = otherTensor.shape[i]

\* What a call leaves: whether it threw, the receiver and the other operand
\* after it, the tensor it returned if any, and for get the value returned
\* (None when undefined).
Outcome(raised, receiver, other, result, got) ==
    [ raised |-> raised, receiver |-> receiver, other |-> other,
      result |-> result, got |-> got ]

Thrown(receiver, other) == Outcome(TRUE, receiver, other, None, None)

Returned(receiver, other, result) ==
    Outcome(FALSE, receiver, other, Some(result), None)

get(t, coordinates) ==
    Outcome(FALSE, t, None, None,
            TypedArrayGet(t.data, coordinatesToIndex(t, coordinates)))

set(t, coordinates, value) ==
    Outcome(FALSE,
            [ t EXCEPT !.data = TypedArraySet(t.data,
                                              coordinatesToIndex(t, coordinates),
                                              value) ],
            None, None, None)

\* The number of iterations of for (let i = 0; i < bound; i++).
Iterations(bound) == IF LessThan(Num(0), bound) THEN bound[1] ELSE 0

\* NST.transpose: the two nested loops over shape[0] and shape[1]; of
\* several writes to one place the last one stays.
NSTTranspose(t) ==
    LET transposedShape ==
            [ k \in 1 .. Len(t.shape) |-> t.shape[Len(t.shape) + 1 - k] ]
        rows == Iterations(ArrayAt(t.shape, 0))
        cols == Iterations(ArrayAt(t.shape, 1))
        Target(i, j) ==
            Plus(Times(Num(j), ArrayAt(transposedShape, 1)), Num(i))
        Source(i, j) == Plus(Times(Num(i), ArrayAt(t.shape, 1)), Num(j))
        Writes(k) ==
            { ij \in (0 .. rows - 1) \X (0 .. cols - 1) :
                Target(ij[1], ij[2]) = Num(k) }
        Last(W) ==
            CHOOSE ij \in W :
                \A other \in W :
                    other[1] * cols + other[2] <= ij[1] * cols + ij[2]
        transposedData ==
            [ k \in 1 .. Len(t.data) |->
                IF Writes(k - 1) = {} THEN Num(0)
                ELSE LET ij == Last(Writes(k - 1))
                     IN  Stored(TypedArrayGet(t.data, Source(ij[1], ij[2]))) ]
    IN  Returned(t, None, NeuroSymbolicTensor(transposedData, transposedShape))

\* NeuroSymbolicTensor.transpose: the reversed shape over a new array.
NeuroSymbolicTensorTranspose(t) ==
    LET transposedShape ==
            [ k \in 1 .. Len(t.shape) |-> t.shape[Len(t.shape) + 1 - k] ]
    IN  Returned(t, None,
                 NeuroSymbolicTensor(Zeros(Len(t.data)), transposedShape))

transpose(t) ==
    IF t.cls = "NST" THEN NSTTranspose(t) ELSE NeuroSymbolicTensorTranspose(t)

\* Math.min(...data) and Math.max(...data) of a non-empty array: NaN when
\* an element is.
MathMin(data) ==
    IF \E k \in 1 .. Len(data) : IsNaN(data[k]) THEN NaN
    ELSE data[CHOOSE k \in 1 .. Len(data) :
                \A n \in 1 .. Len(data) : data[k][1] <= data[n][1]]

MathMax(data) ==
    IF \E k \in 1 .. Len(data) : IsNaN(data[k]) THEN NaN
    ELSE data[CHOOSE k \in 1 .. Len(data) :
                \A n \in 1 .. Len(data) : data[n][1] <= data[k][1]]

\* NST.normalize minus the subtraction of min.
NSTNormalizeUnshifted(t) ==
    IF Len(t.data) = 0 THEN Returned(t, None, NeuroSymbolicTensor(<< >>, t.shape))
    ELSE LET min == MathMin(t.data)
             range == Minus(MathMax(t.data), min)
             normData == [ k \in 1 .. Len(t.data) |-> Divide(t.data[k], range) ]
         IN  Returned(t, None, NeuroSymbolicTensor(normData, t.shape))

\* NST.normalize: (value - min) / range for every element.
NSTNormalize(t) ==
    IF Len(t.data) = 0 THEN Returned(t, None, NeuroSymbolicTensor(<< >>, t.shape))
    ELSE LET min == MathMin(t.data)
             range == Minus(MathMax(t.data), min)
             normData == [ k \in 1 .. Len(t.data) |->
                             Divide(Minus(t.data[k], min), range) ]
         IN  Returned(t, None, NeuroSymbolicTensor(normData, t.shape))

\* NeuroSymbolicTensor.normalize: the same shape over a new array.
NeuroSymbolicTensorNormalize(t) ==
    Returned(t, None, NeuroSymbolicTensor(Zeros(Len(t.data)), t.shape))

normalize(t) ==
    IF t.cls = "NST" THEN NSTNormalize(t) ELSE NeuroSymbolicTensorNormalize(t)

\* add and multiply, the same in both classes.
add(t, otherTensor) ==
    IF ~isSameShape(t, otherTensor) THEN Thrown(t, Some(otherTensor))
    ELSE Returned(t, Some(otherTensor),
           NeuroSymbolicTensor(
             [ k \in 1 .. Len(t.data) |->
                 Plus(t.data[k],
                      Stored(TypedArrayGet(otherTensor.data, Num(k - 1)))) ],
             t.shape))

multiply(t, otherTensor) ==
    IF ~isSameShape(t, otherTensor) THEN Thrown(t, Some(otherTensor))
    ELSE Returned(t, Some(otherTensor),
           NeuroSymbolicTensor(
             [ k \in 1 .. Len(t.data) |->
                 TimesElements(t.data[k],
                      Stored(TypedArrayGet(otherTensor.data, Num(k - 1)))) ],
             t.shape))

\* newShape[axis] += otherTensor.shape[axis]
ConcatenatedShape(t, otherTensor, axis) ==
    [ t.shape EXCEPT ![axis + 1] = Plus(@, ArrayAt(otherTensor.shape, axis)) ]

\* A concatenate that appends the other's data to the receiver itself.
NSTConcatenateAppending(t, otherTensor, axis) ==
    IF axis < 0 \/ axis >= Len(t.shape) THEN Thrown(t, Some(otherTensor))
    ELSE LET appended ==
                 [ t EXCEPT !.data = t.data \o otherTensor.data,
                            !.shape = ConcatenatedShape(t, otherTensor, axis) ]
         IN  Returned(appended, Some(otherTensor),
                      NeuroSymbolicTensor(appended.data, appended.shape))

\* NST.concatenate: the receiver's data followed by the other's.
NSTConcatenate(t, otherTensor, axis) ==
    IF axis < 0 \/ axis >= Len(t.shape) THEN Thrown(t, Some(otherTensor))
    ELSE Returned(t, Some(otherTensor),
           NeuroSymbolicTensor(t.data \o otherTensor.data,
                               ConcatenatedShape(t, otherTensor, axis)))

\* NeuroSymbolicTensor.concatenate: a new array of the two lengths.
NeuroSymbolicTensorConcatenate(t, otherTensor, axis) ==
    IF axis < 0 \/ axis >= Len(t.shape) THEN Thrown(t, Some(otherTensor))
    ELSE Returned(t, Some(otherTensor),
           NeuroSymbolicTensor(Zeros(Len(t.data) + Len(otherTensor.data)),
                               ConcatenatedShape(t, otherTensor, axis)))

concatenate(t, otherTensor, axis) ==
    IF t.cls = "NST" THEN NSTConcatenate(t, otherTensor, axis)
    ELSE NeuroSymbolicTensorConcatenate(t, otherTensor, axis)

\* NeuroSymbolicTensor.stack: newShape.splice(axis, 0, otherTensors.length + 1)
stack(t, otherTensors, axis) ==
    IF axis < 0 \/ axis > Len(t.shape) THEN Thrown(t, None)
    ELSE Returned(t, None,
           NeuroSymbolicTensor(
             Zeros(Len(t.data) * (Len(otherTensors) + 1)),
             SubSeq(t.shape, 1, axis) \o << Num(Len(otherTensors) + 1) >>
               \o SubSeq(t.shape, axis + 1, Len(t.shape))))

\* NeuroSymbolicTensor.slice; new Float32Array(length) throws a RangeError
\* for a negative length.
slice(t, start, end) ==
    IF Len(start) # Len(t.shape) \/ Len(end) # Len(t.shape) THEN Thrown(t, None)
    ELSE LET newShape == [ k \in 1 .. Len(end) |-> Num(end[k] - start[k]) ]
             length == Product(newShape)
         IN  IF length[1] < 0 THEN Thrown(t, None)
             ELSE Returned(t, None,
                           NeuroSymbolicTensor(Zeros(length[1]), newShape))

\* The literals of PerceptionModule: new Float32Array(1000) and [10, 10, 10].
PerceivedLength == 1000

PerceivedDimension == 10

\* PerceptionModule.perceive: an NST over fresh numerical data, each
\* element a Math.random() value; pattern picks the values drawn.
perceive(pattern) ==
    Tensor("NST",
           << Num(PerceivedDimension), Num(PerceivedDimension),
              Num(PerceivedDimension) >>,
           [ k \in 1 .. PerceivedLength |->
               Num(((k * pattern) % 2) * (Unit \div 2)) ])

\* The tensors a caller starts from and passes as operands: each has as
\* many elements as its shape says.
ConstantVector ==
    Tensor("NST", << Num(2) >>, << Num(Unit), Num(Unit) >>)

Matrix ==
    Tensor("NST", << Num(2), Num(2) >>,
           << Num(Unit), Num(2 * Unit), Num(4 * Unit), Num(3 * Unit) >>)

Row == Tensor("NST", << Num(1), Num(2) >>, << Num(Unit), Num(3 * Unit) >>)

Derived ==
    NeuroSymbolicTensor(<< Num(3 * Unit), Num(Unit), Num(0), Num(2 * Unit) >>,
                        << Num(2), Num(2) >>)

TensorInputs == { ConstantVector, Matrix, Row, Derived }

OtherTensors == { ConstantVector, Matrix, Row }

\* Coordinate tuples a caller passes: within a 2 x 2 or 10 x 10 x 10
\* tensor, of the wrong length, or with a component out of range.
Coordinates ==
    { << 1 >>, << 0, 1 >>, << 1, 1 >>, << 0, 3 >>, << 2, 0 >>, << 1, -1 >>,
      << 1, 0, 0 >> }

\* The value a caller stores: 5, which a Float32Array holds exactly.
StoredValues == { Num(5 * Unit) }

Axes == { -1, 0, 1 }

StackedTensors == { << >>, << Row >> }

\* start and end of the slices a caller asks for.
Slices ==
    { << << 0, 0 >>, << 1, 2 >> >>, << << 1, 1 >>, << 1, 2 >> >>,
      << << 1, 1 >>, << 0, 0 >> >>, << << 0, 0 >>, << -1, 2 >> >>,
      << << 0 >>, << 1 >> >> }

PerceivedPatterns == { 1, 2 }

\* Number of tensor method calls a behaviour may contain.
MaxCalls == 2

\* A call in progress: the method, its arguments (passed is the tensors
\* handed to it, as they were when handed over) and what it left.
NoTensorCall ==
    [ op |-> "none", coordinates |-> << >>, end |-> << >>, value |-> NaN,
      axis |-> 0, passed |-> << >>,
      outcome |-> Outcome(FALSE, ConstantVector, None, None, None) ]

TensorCall(op, coordinates, end, value, axis, passed, outcome) ==
    [ op |-> op, coordinates |-> coordinates, end |-> end, value |-> value,
      axis |-> axis, passed |-> passed, outcome |-> outcome ]

----------------------------------------------------------------------------
(* The circuit simulator (nnQC): complex amplitudes, gates and the state   *)
(* vector simulate computes.  Amplitudes are whole numbers.                *)

Complex(real, imaginary) == [ real |-> real, imaginary |-> imaginary ]

ComplexAdd(x, other) ==
    Complex(x.real + other.real, x.imaginary + other.imaginary)

ComplexMultiply(x, other) ==
    Complex(x.real * other.real - x.imaginary * other.imaginary,
            x.real * other.imaginary + x.imaginary * other.real)

nnQCXGate ==
    [ name |-> "X",
      matrix |-> << << Complex(0, 0), Complex(1, 0) >>,
                    << Complex(1, 0), Complex(0, 0) >> >> ]

nnQCZGate ==
    [ name |-> "Z",
      matrix |-> << << Complex(1, 0), Complex(0, 0) >>,
                    << Complex(0, 0), Complex(-1, 0) >> >> ]

nnQCCNOTGate ==
    [ name |-> "CNOT",
      matrix |->
        << << Complex(1, 0), Complex(0, 0), Complex(0, 0), Complex(0, 0) >>,
           << Complex(0, 0), Complex(1, 0), Complex(0, 0), Complex(0, 0) >>,
           << Complex(0, 0), Complex(0, 0), Complex(0, 0), Complex(1, 0) >>,
           << Complex(0, 0), Complex(0, 0), Complex(1, 0), Complex(0, 0) >> >> ]

\* A circuit as new nnQCQuantumCircuit() leaves it.
nnQCQuantumCircuit == [ qubits |-> << >>, gates |-> << >> ]

\* array.indexOf(element): the 0-based place of its first occurrence, or -1.
IndexOf(array, element) ==
    IF \E i \in 1 .. Len(array) : array[i] = element
    THEN (CHOOSE i \in 1 .. Len(array) :
            /\ array[i] = element
            /\ \A k \in 1 .. i - 1 : array[k] # element) - 1
    ELSE -1

\* (j >> index) & 1 for an index j of the state vector: the shift count is
\* taken modulo 32, so that a count of -1 shifts every bit of j out.
BitAt(j, index) ==
    IF index % 32 > 30 THEN 0 ELSE (j \div (2 ^ (index % 32))) % 2

\* j ^ (1 << index) for a j whose bit index is 1.
Flipped(j, index) == j - 2 ^ index

\* for (let j = ...) of a single-qubit gate, from j on; currentState is
\* 0-based in the source and 1-based here.
RECURSIVE SingleQubitLoop(_, _, _, _)
SingleQubitLoop(currentState, matrix, qubitIndex, j) ==
    IF j >= Len(currentState) THEN currentState
    ELSE IF BitAt(j, qubitIndex) = 1
    THEN LET partner == Flipped(j, qubitIndex)
             temp == currentState[j + 1]
             first ==
                 [ currentState EXCEPT ![j + 1] =
                     ComplexMultiply(currentState[partner + 1], matrix[2][1]) ]
             second ==
                 [ first EXCEPT ![partner + 1] =
                     ComplexMultiply(temp, matrix[1][1]) ]
             third ==
                 [ second EXCEPT ![j + 1] =
                     ComplexAdd(second[j + 1],
                                ComplexMultiply(temp, matrix[1][2])) ]
             fourth ==
                 [ third EXCEPT ![partner + 1] =
                     ComplexAdd(third[partner + 1],
                                ComplexMultiply(third[j + 1], matrix[2][2])) ]
         IN  SingleQubitLoop(fourth, matrix, qubitIndex, j + 1)
    ELSE SingleQubitLoop(currentState, matrix, qubitIndex, j + 1)

\* for (let j = ...) of a two-qubit gate, from j on.
RECURSIVE TwoQubitLoop(_, _, _, _)
TwoQubitLoop(currentState, controlIndex, targetIndex, j) ==
    IF j >= Len(currentState) THEN currentState
    ELSE IF BitAt(j, controlIndex) = 1 /\ BitAt(j, targetIndex) = 1
    THEN LET partner == Flipped(j, targetIndex)
             temp == currentState[j + 1]
         IN  TwoQubitLoop([ currentState EXCEPT
                              ![j + 1] = currentState[partner + 1],
                              ![partner + 1] = temp ],
                          controlIndex, targetIndex, j + 1)
    ELSE TwoQubitLoop(currentState, controlIndex, targetIndex, j + 1)

\* for (let i = ...) over circuit.gates, from gate i (1-based) on.
RECURSIVE GateLoop(_, _, _)
GateLoop(circuit, currentState, i) ==
    IF i > Len(circuit.gates) THEN currentState
    ELSE LET gate == circuit.gates[i].gate
             qubits == circuit.gates[i].qubits
         IN  IF Len(qubits) = 1
             THEN GateLoop(circuit,
                           SingleQubitLoop(currentState, gate.matrix,
                                           IndexOf(circuit.qubits, qubits[1]),
                                           0),
                           i + 1)
             ELSE IF Len(qubits) = 2
             THEN GateLoop(circuit,
                           TwoQubitLoop(currentState,
                                        IndexOf(circuit.qubits, qubits[1]),
                                        IndexOf(circuit.qubits, qubits[2]), 0),
                           i + 1)
             ELSE GateLoop(circuit, currentState, i + 1)

\* nnQCQuantumSimulator.simulate: 2^n amplitudes, the first one 1.
simulate(circuit) ==
    GateLoop(circuit,
             [ k \in 1 .. 2 ^ Len(circuit.qubits) |->
                 IF k = 1 THEN Complex(1, 0) ELSE Complex(0, 0) ],
             1)

\* The qubits a program creates, by id, and the gate applications it may
\* add: X and Z on one qubit, CNOT on two different ones.
Qubits == { 0, 1 }

GateApplications ==
    { [ gate |-> g, qubits |-> << q >> ] :
        g \in { nnQCXGate, nnQCZGate }, q \in Qubits }
    \cup { [ gate |-> nnQCCNOTGate, qubits |-> << ct[1], ct[2] >> ] :
             ct \in { pair \in Qubits \X Qubits : pair[1] # pair[2] } }

\* Number of gates a circuit may hold.
MaxGates == 2

NoSimulation ==
    [ made |-> FALSE, circuit |-> nnQCQuantumCircuit, finalState |-> << >> ]

----------------------------------------------------------------------------
(* State.                                                                  *)

\* Invocations of run: 1 and 2 are two invocations of AGI.run on one AGI
\* object, 3 is the run of the IntegratedAgenticStrangeLoopAGI that the
\* main execution starts.
AGILoops == { 1, 2 }

MainLoops == { 3 }

Loops == AGILoops \cup MainLoops

VARIABLES
    qismeValues,      \* the Map of the engine (ActionSelectionModule / AGI)
    mainQismeValues,  \* the Map of the main program's own ActionSelectionModule
    lastCall,         \* a direct call that has not returned to its caller yet
    history,          \* the writes to qismeValues so far, oldest first
    pc,               \* per invocation of run: the await it is suspended at
    currentState,     \* per invocation: currentState / abstractState
    action,           \* per invocation: action / selectedAction
    failure,          \* per invocation: what rejected its promise, if anything
    selections,       \* per invocation: the chooseAction calls it has made
    fingerprintArgs,  \* two (state, action) pairs handed to the key function
    fingerprints,     \* the keys returned for them, once computed
    engines,          \* a pair of engines: each one's Map, in insertion order
    picks,            \* the last chooseAction call made on both engines
    tensor,           \* the tensor under operation
    tensorCall,       \* a tensor operation that has not returned yet
    calls,            \* the tensor operations called so far
    circuit,          \* the circuit under construction
    simulation        \* the last simulate call: its circuit and result

loopVars == << pc, currentState, action, failure, selections >>

\* The variables of the key function, the engine pair, the tensor and the
\* circuit, which the engine and the driving loops leave alone.
keyVars == << fingerprintArgs, fingerprints >>

pairVars == << engines, picks >>

tensorVars == << tensor, tensorCall, calls >>

circuitVars == << circuit, simulation >>

engineVars ==
    << qismeValues, mainQismeValues, lastCall, history, pc, currentState,
       action, failure, selections >>

vars ==
    << qismeValues, mainQismeValues, lastCall, history, pc, currentState,
       action, failure, selections, fingerprintArgs, fingerprints, engines,
       picks, tensor, tensorCall, calls, circuit, simulation >>

NoCall ==
    [ op |-> "none", s |-> StateA, a |-> "", r |-> 0, sPrime |-> StateA,
      sig |-> NoSignals, raised |-> FALSE, result |-> "" ]

EngineInit ==
    /\ qismeValues = EmptyMap
    /\ mainQismeValues = EmptyMap
    /\ lastCall = NoCall
    /\ history = << >>
    /\ pc = [ l \in Loops |-> "perceive" ]
    /\ currentState = [ l \in Loops |-> None ]
    /\ action = [ l \in Loops |-> "" ]
    /\ failure = [ l \in Loops |-> "none" ]
    /\ selections = [ l \in Loops |-> 0 ]

KeyIdle == fingerprintArgs = << >> /\ fingerprints = << >>

PairIdle == engines = [ e \in Engines |-> NewEngine ] /\ picks = NoPick

TensorIdle ==
    tensor = ConstantVector /\ tensorCall = NoTensorCall /\ calls = 0

CircuitIdle == circuit = nnQCQuantumCircuit /\ simulation = NoSimulation

Init ==
    /\ EngineInit
    /\ KeyIdle
    /\ PairIdle
    /\ TensorIdle
    /\ CircuitIdle

\* A write as history keeps it: who called updateQISMEL, the key set, the
\* value read and the value stored, and the sPrime the call was given.
Written(by, res, sPrime) ==
    [ by |-> by, key |-> res.key, current |-> res.current, new |-> res.new,
      sPrime |-> sPrime ]

----------------------------------------------------------------------------
(* The engine called directly: a caller invokes chooseAction and           *)
(* updateQISMEL with any arguments and then takes the outcome.             *)

CallChooseAction(state) ==
    /\ lastCall.op = "none"
    /\ LET res == chooseAction(qismeValues, state)
       IN  lastCall' = [ NoCall EXCEPT !.op = "chooseAction", !.s = state,
                                       !.raised = res.raised,
                                       !.result = res.action ]
    /\ qismeValues' = ScannedTable(qismeValues, state, 1)
    /\ UNCHANGED << mainQismeValues, history, loopVars >>
    /\ UNCHANGED << keyVars, pairVars, tensorVars, circuitVars >>

CallUpdateQISMEL(s, a, r, sPrime, sig) ==
    /\ lastCall.op = "none"
    /\ Len(history) < MaxUpdates
    /\ LET res == updateQISMEL(qismeValues, s, a, r, sPrime, sig)
       IN  /\ qismeValues' = res.table
           /\ lastCall' = [ op |-> "updateQISMEL", s |-> s, a |-> a, r |-> r,
                            sPrime |-> sPrime, sig |-> sig,
                            raised |-> res.raised, result |-> "" ]
           /\ history' = IF res.raised THEN history
                         ELSE Append(history, Written(0, res, sPrime))
    /\ UNCHANGED << mainQismeValues, loopVars >>
    /\ UNCHANGED << keyVars, pairVars, tensorVars, circuitVars >>

Return ==
    /\ lastCall.op # "none"
    /\ lastCall' = NoCall
    /\ UNCHANGED << qismeValues, mainQismeValues, history, loopVars >>
    /\ UNCHANGED << keyVars, pairVars, tensorVars, circuitVars >>

Next ==
    \/ \E state \in States : CallChooseAction(state)
    \/ \E s \in States, a \in CalledActions, r \in Rewards,
          sPrime \in CalledNextStates, sig \in SignalRuns :
            CallUpdateQISMEL(s, a, r, sPrime, sig)
    \/ Return

Spec == Init /\ [][Next]_vars

----------------------------------------------------------------------------
(* The driving loops.  run is an async function: it executes without       *)
(* interruption from one await to the next, so each action below is the    *)
(* code that runs when an awaited promise settles, up to the next await.   *)
(* chooseAction contains no await: its body runs when it is called, and    *)
(* the caller then awaits the settled promise.                             *)
(*                                                                         *)
(*   pc = "perceive"  awaiting perception.perceive()                       *)
(*   pc = "chosen"    awaiting the promise of chooseAction                 *)
(*   pc = "step"      awaiting environment.step / executeAction            *)
(*   pc = "halted"    the promise of run is rejected                       *)
(*   pc = "cancelled" stopped from outside between two cycles              *)
(* The main program's 100 ms timer has no effect on the state; the await   *)
(* on it is folded into the await on the next perception.                  *)

\* The methods the classes under src/ define.
AbstractReasoningModuleMethods == { "reason" }

MetaLearningAndAdaptationModuleMethods == { "adapt", "applyAdaptations" }

\* AbstractReasoningModule.reason: the three components return their input.
reason(input) == input

CyclesStarted ==
    LET RECURSIVE Sum(_)
        Sum(S) == IF S = {} THEN 0
                  ELSE LET l == CHOOSE x \in S : TRUE
                       IN  selections[l] + Sum(S \ { l })
    IN  Sum(Loops)

TableOf(l) == IF l \in AGILoops THEN qismeValues ELSE mainQismeValues

\* A rejection of run caught inside the loop, which then starts over.
RunRestarts(l, why) ==
    /\ pc' = [ pc EXCEPT ![l] = "perceive" ]
    /\ failure' = [ failure EXCEPT ![l] = why ]

\* An error thrown inside run rejects its promise: the while loop is left
\* (AGI.run has no handler; the main execution logs the error).
RunRejects(l, why) ==
    /\ pc' = [ pc EXCEPT ![l] = "halted" ]
    /\ failure' = [ failure EXCEPT ![l] = why ]

\* A loop that goes on with the state it had.
KeepCurrentState(state, nextState) == state

\* currentState = nextState, at the end of the body of AGI.run's loop.
AssignNextState(state, nextState) == nextState

\* A loop head that goes on with the first action of the action set
\* whatever chooseAction returned.
LoopHeadFirstAction(l, state) ==
    LET res == chooseAction(TableOf(l), state)
    IN  /\ currentState' = [ currentState EXCEPT ![l] = Some(state) ]
        /\ selections' = [ selections EXCEPT ![l] = @ + 1 ]
        /\ IF res.raised
           THEN RunRejects(l, "chooseAction") /\ UNCHANGED action
           ELSE /\ pc' = [ pc EXCEPT ![l] = "chosen" ]
                /\ action' = [ action EXCEPT ![l] = possibleActions[1] ]
                /\ UNCHANGED failure

\* The head of the while loop: chooseAction is called on state.
LoopHead(l, state) ==
    LET res == chooseAction(TableOf(l), state)
    IN  /\ currentState' = [ currentState EXCEPT ![l] = Some(state) ]
        /\ selections' = [ selections EXCEPT ![l] = @ + 1 ]
        /\ IF res.raised
           THEN RunRejects(l, "chooseAction") /\ UNCHANGED action
           ELSE /\ pc' = [ pc EXCEPT ![l] = "chosen" ]
                /\ action' = [ action EXCEPT ![l] = res.action ]
                /\ UNCHANGED failure

\* perceive() resolves with state; the loop selects an action on it.
PerceiveResolves(l, state) ==
    /\ pc[l] = "perceive"
    /\ CyclesStarted < MaxUpdates
    /\ LoopHead(l, reason(state))
    /\ UNCHANGED << qismeValues, mainQismeValues, lastCall, history >>
    /\ UNCHANGED << keyVars, pairVars, tensorVars, circuitVars >>

PerceiveRejects(l) ==
    /\ pc[l] = "perceive"
    /\ RunRejects(l, "perception")
    /\ UNCHANGED << qismeValues, mainQismeValues, lastCall, history,
                    currentState, action, selections >>
    /\ UNCHANGED << keyVars, pairVars, tensorVars, circuitVars >>

\* The promise of chooseAction resolves.  AGI.run calls environment.step.
\* The main program stores state and action, adapts, runs the integration
\* module and calls updateSelfModel, modifyGoalBasedOnSelfModel and
\* executeAction; updateSelfModel calls integrateIntoSelfModel on an
\* AbstractReasoningModule.
ChooseResolves(l) ==
    /\ pc[l] = "chosen"
    /\ IF l \in MainLoops
          /\ "integrateIntoSelfModel" \notin AbstractReasoningModuleMethods
       THEN RunRejects(l, "integrateIntoSelfModel")
       ELSE pc' = [ pc EXCEPT ![l] = "step" ] /\ UNCHANGED failure
    /\ UNCHANGED << qismeValues, mainQismeValues, lastCall, history,
                    currentState, action, selections >>
    /\ UNCHANGED << keyVars, pairVars, tensorVars, circuitVars >>

StepRejects(l) ==
    /\ pc[l] = "step"
    /\ RunRejects(l, "environment")
    /\ UNCHANGED << qismeValues, mainQismeValues, lastCall, history,
                    currentState, action, selections >>
    /\ UNCHANGED << keyVars, pairVars, tensorVars, circuitVars >>

\* environment.step / executeAction resolves with [reward, nextState]:
\* updateQISMEL runs, then in AGI.run latentLearningFn (outcome latent),
\* currentState = nextState and the next chooseAction; in the main program
\* attemptSelfImprovement, which calls proposeImprovement on a
\* MetaLearningAndAdaptationModule, and then the timer and perceive().
StepResolves(l, reward, nextState, sig, latent) ==
    /\ pc[l] = "step"
    /\ LET res == updateQISMEL(TableOf(l), currentState[l][1], action[l],
                               reward, nextState, sig)
       IN  /\ IF l \in AGILoops
              THEN /\ qismeValues' = res.table
                   /\ history' = IF res.raised THEN history
                                 ELSE Append(history, Written(l, res, nextState))
                   /\ UNCHANGED mainQismeValues
              ELSE /\ mainQismeValues' = res.table
                   /\ UNCHANGED << qismeValues, history >>
           /\ IF res.raised
              THEN /\ RunRejects(l, "updateQISMEL")
                   /\ UNCHANGED << currentState, action, selections >>
              ELSE IF l \in AGILoops
              THEN IF latent.raised
                   THEN /\ RunRejects(l, "latentLearningFn")
                        /\ UNCHANGED << currentState, action, selections >>
                   ELSE IF CyclesStarted < MaxUpdates
                   THEN LET carried == AssignNextState(currentState[l][1],
                                                       nextState)
                            after == chooseAction(res.table, carried)
                        IN  /\ currentState' =
                                 [ currentState EXCEPT ![l] = Some(carried) ]
                            /\ selections' = [ selections EXCEPT ![l] = @ + 1 ]
                            /\ IF after.raised
                               THEN RunRejects(l, "chooseAction")
                                    /\ UNCHANGED action
                               ELSE /\ pc' = [ pc EXCEPT ![l] = "chosen" ]
                                    /\ action' =
                                         [ action EXCEPT ![l] = after.action ]
                                    /\ UNCHANGED failure
                   ELSE /\ pc' = [ pc EXCEPT ![l] = "cancelled" ]
                        /\ currentState' =
                             [ currentState EXCEPT ![l] =
                                 Some(AssignNextState(@[1], nextState)) ]
                        /\ UNCHANGED << action, failure, selections >>
              ELSE /\ IF "proposeImprovement"
                           \notin MetaLearningAndAdaptationModuleMethods
                      THEN RunRejects(l, "proposeImprovement")
                      ELSE pc' = [ pc EXCEPT ![l] = "perceive" ]
                           /\ UNCHANGED failure
                   /\ UNCHANGED << currentState, action, selections >>
    /\ UNCHANGED lastCall
    /\ UNCHANGED << keyVars, pairVars, tensorVars, circuitVars >>

NextLoop ==
    \/ \E l \in Loops, state \in States : PerceiveResolves(l, state)
    \/ \E l \in Loops : PerceiveRejects(l)
    \/ \E l \in Loops : ChooseResolves(l)
    \/ \E l \in Loops : StepRejects(l)
    \/ \E l \in Loops, reward \in Rewards, nextState \in States,
          sig \in SignalRuns, latent \in { Returns(0), Throws } :
            StepResolves(l, reward, nextState, sig, latent)

SpecLoop == Init /\ [][NextLoop]_vars

----------------------------------------------------------------------------
(* Properties of the engine called directly (Spec).                        *)

\* A step in which a direct updateQISMEL call is made.
UpdateCallStep == lastCall.op = "none" /\ lastCall'.op = "updateQISMEL"

KeyOf(s, a) == generateStateActionKey(s, a).key

\* The largest table value over the action set at the keys of sPrime.
MaxOverActions(table, sPrime) ==
    LET vals == { GetOrZero(table, KeyOf(sPrime, a)) : a \in Actions }
    IN  CHOOSE m \in vals : \A v \in vals : v <= m

\* C1: after an updateQISMEL(s, a, r, sPrime) call that returns, the entry
\* at the key of (s, a) is current + alpha (r + gamma maxNext - current)
\* + beta i + delta s + epsilon m + zeta e + eta l, with current the entry
\* before the call (0 if absent), maxNext the largest table value over the
\* action set at the keys of sPrime (0 if absent), and i, s, m, e, l what
\* the five providers returned in this call.  Stated times 100.
C1_UpdateRule ==
    [][ (UpdateCallStep /\ ~lastCall'.raised) =>
          LET c == lastCall'
              key == KeyOf(c.s, c.a)
              current == GetOrZero(qismeValues, key)
              maxNext == MaxOverActions(qismeValues, c.sPrime)
          IN  /\ key \in DOMAIN qismeValues'
              /\ 100 * qismeValues'[key] =
                   100 * current
                   + learningRate
                       * (10 * c.r + discountFactor * maxNext - 10 * current)
                   + 10 * ( intrinsicWeight * c.sig["intrinsicRewardFn"].value
                          + symbolicWeight * c.sig["symbolicReasoningFn"].value
                          + metaLearningWeight * c.sig["metaLearningFn"].value
                          + evolutionaryWeight
                              * c.sig["evolutionaryOptimizationFn"].value
                          + latentLearningWeight * c.sig["latentLearningFn"].value )
      ]_vars

\* An update has returned that read a non-zero current value and a non-zero
\* next-state maximum, with every provider returning 1.
C1_Witness ==
    /\ lastCall.op = "updateQISMEL" /\ ~lastCall.raised
    /\ Len(history) = 2
    /\ history[2].key = history[1].key
    /\ history[2].current > 0
    /\ lastCall.sPrime = lastCall.s
    /\ lastCall.sig = AllReturn(Scale)

\* C2: an updateQISMEL call that throws (in the key function, in the
\* next-state maximum or in a provider) leaves the table as it was: every
\* entry keeps its value and no key is created.
C2_FailedUpdateNoOp ==
    [][ (UpdateCallStep /\ lastCall'.raised) => qismeValues' = qismeValues ]_vars

\* A provider threw in an update whose key is absent from a non-empty table.
C2_Witness ==
    /\ lastCall.op = "updateQISMEL" /\ lastCall.raised
    /\ AnyThrows(lastCall.sig)
    /\ IsSome(lastCall.s.numericalData) /\ IsSome(lastCall.sPrime.numericalData)
    /\ qismeValues # EmptyMap
    /\ KeyOf(lastCall.s, lastCall.a) \notin DOMAIN qismeValues

C4_ClassicalUpdate ==
    [][ (UpdateCallStep /\ ~lastCall'.raised) =>
          LET c == lastCall'
              key == KeyOf(c.s, c.a)
              current == GetOrZero(qismeValues, key)
              maxNext == MaxOverActions(qismeValues, c.sPrime)
          IN  /\ 100 * qismeValues'[key] =
                   100 * current
                   + learningRate
                       * (10 * c.r + discountFactor * maxNext - 10 * current)
              /\ (c.r = Scale /\ current = 0 /\ maxNext = 0)
                   => 10 * qismeValues'[key] = Scale
      ]_vars

\* C5: when a provider throws during updateQISMEL the call throws to its
\* caller and the table is not written.
C5_ProviderErrorPropagates ==
    [][ (UpdateCallStep /\ AnyThrows(lastCall'.sig)) =>
          (lastCall'.raised /\ qismeValues' = qismeValues) ]_vars

\* A provider threw in an update whose other steps succeed.
C5_Witness ==
    /\ lastCall.op = "updateQISMEL" /\ lastCall.raised
    /\ AnyThrows(lastCall.sig)
    /\ IsSome(lastCall.s.numericalData) /\ IsSome(lastCall.sPrime.numericalData)
    /\ Len(history) = 1

\* C6: an updateQISMEL(s, a, ...) call changes at most the entry at the key
\* of (s, a): every other key is present after the call exactly if it was
\* before, with the same value.
C6_SingleEntryFrame ==
    [][ UpdateCallStep =>
          \A k \in DOMAIN qismeValues \cup DOMAIN qismeValues' :
              (generateStateActionKey(lastCall'.s, lastCall'.a).raised
               \/ k # KeyOf(lastCall'.s, lastCall'.a))
              => /\ k \in DOMAIN qismeValues
                 /\ k \in DOMAIN qismeValues'
                 /\ qismeValues'[k] = qismeValues[k] ]_vars

\* An update has returned that left another entry in the table, with the
\* keys of its next state absent.
C6_Witness ==
    /\ lastCall.op = "updateQISMEL" /\ ~lastCall.raised
    /\ Len(history) = 2
    /\ history[1].key # history[2].key
    /\ lastCall.sPrime # lastCall.s
    /\ Cardinality(DOMAIN qismeValues) = 2

\* C7: over any sequence of chooseAction and updateQISMEL calls the key set
\* of the table only grows: an update that returns leaves an entry at its
\* key, and no call removes an entry.
C7_KeysOnlyGrow ==
    [][ /\ DOMAIN qismeValues \subseteq DOMAIN qismeValues'
        /\ (UpdateCallStep /\ ~lastCall'.raised)
             => DOMAIN qismeValues'
                  = DOMAIN qismeValues \cup { KeyOf(lastCall'.s, lastCall'.a) }
      ]_vars

\* Two updates have written two different keys and a chooseAction call
\* followed.
C7_Witness ==
    /\ Len(history) = 2
    /\ history[1].key # history[2].key
    /\ Cardinality(DOMAIN qismeValues) = 2
    /\ lastCall.op = "chooseAction"

----------------------------------------------------------------------------
(* Properties of the driving loops (SpecLoop).                             *)

\* The causes of a rejection that lie outside the loop: a perception,
\* environment or provider call that failed, or a state they delivered on
\* which the key function throws.
OutsideFailures ==
    { "perception", "environment", "updateQISMEL", "latentLearningFn",
      "chooseAction" }

\* C8: when no perception, environment or signal-provider call fails, a
\* driving loop keeps cycling through selection and update and reaches no
\* terminal state: a loop whose promise is rejected was stopped by one of
\* those failures.
C8_LoopEndsOnlyOnOutsideFailure ==
    \A l \in Loops : pc[l] = "halted" => failure[l] \in OutsideFailures

\* The number of history entries written by invocation l.
RECURSIVE WritesBy(_, _)
WritesBy(h, l) ==
    IF Len(h) = 0 THEN 0
    ELSE (IF h[1].by = l THEN 1 ELSE 0) + WritesBy(Tail(h), l)

\* C9: once chooseAction or updateQISMEL has thrown inside a driving loop,
\* that loop stays stopped: it makes no further selection and writes no
\* table again.
C9_LoopHaltsOnCoreError ==
    [][ \A l \in Loops :
          failure[l] \in { "chooseAction", "updateQISMEL" } =>
            /\ pc'[l] = "halted"
            /\ selections'[l] = selections[l]
            /\ WritesBy(history', l) = WritesBy(history, l)
            /\ (l \in MainLoops => mainQismeValues' = mainQismeValues)
      ]_vars

\* One loop was stopped by updateQISMEL and another by chooseAction.
C9_Witness ==
    \E l1, l2 \in Loops :
        /\ failure[l1] = "updateQISMEL" /\ pc[l1] = "halted"
        /\ failure[l2] = "chooseAction" /\ pc[l2] = "halted"

\* The value most recently written under key before position i of h, 0 if
\* none.
RECURSIVE LastWritten(_, _, _)
LastWritten(h, key, i) ==
    IF i < 1 THEN 0
    ELSE IF h[i].key = key THEN h[i].new
    ELSE LastWritten(h, key, i - 1)

\* C10: with several loops on one table no update is lost: every update
\* read, as current, the value the latest earlier write to its key had
\* stored (0 if none), and at every point, with loops stopped or not, the
\* table holds exactly the latest write to each key, which is the result of
\* applying the updates one after another in the order of history.
C10_NoLostUpdate ==
    /\ \A i \in 1 .. Len(history) :
         history[i].current = LastWritten(history, history[i].key, i - 1)
    /\ DOMAIN qismeValues = { history[i].key : i \in 1 .. Len(history) }
    /\ \A k \in DOMAIN qismeValues :
         qismeValues[k] = LastWritten(history, k, Len(history))

\* Two different loops have written the same key, one after the other, and
\* a loop has been stopped.
C10_Witness ==
    /\ Len(history) = 2
    /\ history[1].by # history[2].by
    /\ history[1].key = history[2].key
    /\ history[2].current # 0
    /\ \E l \in Loops : pc[l] \in { "halted", "cancelled" }

----------------------------------------------------------------------------
(* The key function called on its own (SpecKey): two (state, action)       *)
(* pairs are handed to generateStateActionKey and the keys compared.       *)

InitKey ==
    /\ EngineInit
    /\ PairIdle
    /\ TensorIdle
    /\ CircuitIdle
    /\ fingerprintArgs \in KeyInputs \X KeyInputs
    /\ fingerprints = << >>

Fingerprint ==
    /\ fingerprints = << >>
    /\ fingerprints' =
         << generateStateActionKey(fingerprintArgs[1].s, fingerprintArgs[1].a),
            generateStateActionKey(fingerprintArgs[2].s, fingerprintArgs[2].a) >>
    /\ UNCHANGED << fingerprintArgs, engineVars, pairVars, tensorVars,
                    circuitVars >>

NextKey == Fingerprint

SpecKey == InitKey /\ [][NextKey]_vars

\* C11: two (state, action) pairs that differ in an element of the numeric
\* payload, in the action label, in the presence or an element of the image
\* or audio embeddings, or in a sensor value get different keys.
C11_FingerprintInjective ==
    fingerprints # << >> =>
        (Content(fingerprintArgs[1].s, fingerprintArgs[1].a)
           # Content(fingerprintArgs[2].s, fingerprintArgs[2].a)
         => fingerprints[1].key # fingerprints[2].key)

\* C12: two (state, action) pairs that hold the same payload, action label,
\* embeddings and sensor names and values, whatever order the sensor
\* properties were inserted in, get the same key.
C12_FingerprintCanonical ==
    fingerprints # << >> =>
        (Content(fingerprintArgs[1].s, fingerprintArgs[1].a)
           = Content(fingerprintArgs[2].s, fingerprintArgs[2].a)
         => fingerprints[1].key = fingerprints[2].key)

----------------------------------------------------------------------------
(* Two engines side by side (SpecPair): each is updated on its own, so     *)
(* that their Maps may hold the same entries set in different orders, and  *)
(* chooseAction is then called on both with the same arguments.            *)

\* updateQISMEL(StateA, a, r, StateB) on engine e, no provider throwing.
UpdateEngine(e, a, r) ==
    /\ ~picks.made
    /\ engines[e].updates < MaxUpdates
    /\ LET res == updateQISMEL(Lookups(engines[e].qismeValues),
                               StateA, a, r, StateB, NoSignals)
       IN  engines' =
             [ engines EXCEPT
                 ![e] = [ qismeValues |->
                            IF res.raised THEN @.qismeValues
                            ELSE OrderedMapSet(@.qismeValues, res.key, res.new),
                          updates |-> @.updates + 1 ] ]
    /\ UNCHANGED << picks, engineVars, keyVars, tensorVars, circuitVars >>

\* chooseAction(state) on both engines; a caller that passes an action set
\* passes it as a second argument, which the method does not declare.
ChooseOnBoth(state, actionSet) ==
    /\ ~picks.made
    /\ picks' =
         [ made |-> TRUE, state |-> state, actionSet |-> actionSet,
           result |-> [ e \in Engines |->
                          chooseAction(Lookups(engines[e].qismeValues), state) ] ]
    /\ UNCHANGED << engines, engineVars, keyVars, tensorVars, circuitVars >>

PairReturn ==
    /\ picks.made
    /\ picks' = NoPick
    /\ UNCHANGED << engines, engineVars, keyVars, tensorVars, circuitVars >>

NextPair ==
    \/ \E e \in Engines, a \in CalledActions, r \in Rewards :
         UpdateEngine(e, a, r)
    \/ \E state \in PairStates, actionSet \in SuppliedActionSets :
         ChooseOnBoth(state, actionSet)
    \/ PairReturn

SpecPair == Init /\ [][NextPair]_vars

\* C13: two chooseAction calls on tables that hold the same entries,
\* whatever order of updates set them, with the same state and the same
\* action set, return the same action.
C13_SelectionDeterministic ==
    (picks.made
     /\ Contents(engines[1].qismeValues) = Contents(engines[2].qismeValues))
    => picks.result[1] = picks.result[2]

\* chooseAction has been called on two tables that hold the same two
\* entries, of different values, set in opposite orders.
C13_Witness ==
    /\ picks.made /\ picks.state = StateA
    /\ Contents(engines[1].qismeValues) = Contents(engines[2].qismeValues)
    /\ engines[1].qismeValues # engines[2].qismeValues
    /\ Len(engines[1].qismeValues) = 2
    /\ engines[1].qismeValues[1][2] # engines[1].qismeValues[2][2]
    /\ ~picks.result[1].raised

\* C14: a chooseAction call handed an empty action set fails and returns no
\* action.
C14_EmptyActionSetRejected ==
    (picks.made /\ picks.actionSet = << >>)
    => \A e \in Engines : picks.result[e].raised

----------------------------------------------------------------------------
(* Tensors under operation (SpecTensor): a caller holds a tensor, calls a  *)
(* method on it and goes on with the receiver or with the tensor the       *)
(* method returned.                                                        *)

InitTensor ==
    /\ EngineInit
    /\ KeyIdle
    /\ PairIdle
    /\ CircuitIdle
    /\ tensor \in TensorInputs
    /\ tensorCall = NoTensorCall
    /\ calls = 0

CanCall == tensorCall.op = "none" /\ calls < MaxCalls

\* The call is made: the receiver is as the method leaves it, and the
\* outcome is with the caller.
Called(op, coordinates, end, value, axis, passed, outcome) ==
    /\ tensorCall' =
         TensorCall(op, coordinates, end, value, axis, passed, outcome)
    /\ tensor' = outcome.receiver
    /\ calls' = calls + 1
    /\ UNCHANGED << engineVars, keyVars, pairVars, circuitVars >>

CallGet(coordinates) ==
    /\ CanCall
    /\ Called("get", coordinates, << >>, NaN, 0, << >>,
              get(tensor, coordinates))

CallSet(coordinates, value) ==
    /\ CanCall
    /\ Called("set", coordinates, << >>, value, 0, << >>,
              set(tensor, coordinates, value))

CallTranspose ==
    /\ CanCall
    /\ Called("transpose", << >>, << >>, NaN, 0, << >>, transpose(tensor))

CallNormalize ==
    /\ CanCall
    /\ Called("normalize", << >>, << >>, NaN, 0, << >>, normalize(tensor))

CallAdd(otherTensor) ==
    /\ CanCall
    /\ Called("add", << >>, << >>, NaN, 0, << otherTensor >>,
              add(tensor, otherTensor))

CallMultiply(otherTensor) ==
    /\ CanCall
    /\ Called("multiply", << >>, << >>, NaN, 0, << otherTensor >>,
              multiply(tensor, otherTensor))

CallConcatenate(otherTensor, axis) ==
    /\ CanCall
    /\ Called("concatenate", << >>, << >>, NaN, axis, << otherTensor >>,
              concatenate(tensor, otherTensor, axis))

\* stack and slice are those of NeuroSymbolicTensor.
CallStack(otherTensors, axis) ==
    /\ CanCall
    /\ tensor.cls = "NeuroSymbolicTensor"
    /\ Called("stack", << >>, << >>, NaN, axis, otherTensors,
              stack(tensor, otherTensors, axis))

CallSlice(start, end) ==
    /\ CanCall
    /\ tensor.cls = "NeuroSymbolicTensor"
    /\ Called("slice", start, end, NaN, 0, << >>,
              slice(tensor, start, end))

\* perceive() hands the caller a new tensor.
CallPerceive(pattern) ==
    /\ CanCall
    /\ Called("perceive", << >>, << >>, NaN, 0, << >>,
              Returned(tensor, None, perceive(pattern)))

\* The caller goes on with the receiver or with the tensor returned.
TensorReturn(withResult) ==
    /\ tensorCall.op # "none"
    /\ IF withResult
       THEN /\ IsSome(tensorCall.outcome.result)
            /\ tensor' = tensorCall.outcome.result[1]
       ELSE tensor' = tensor
    /\ tensorCall' = NoTensorCall
    /\ UNCHANGED << calls, engineVars, keyVars, pairVars, circuitVars >>

NextTensor ==
    \/ \E coordinates \in Coordinates : CallGet(coordinates)
    \/ \E coordinates \in Coordinates, value \in StoredValues :
         CallSet(coordinates, value)
    \/ CallTranspose
    \/ CallNormalize
    \/ \E otherTensor \in OtherTensors : CallAdd(otherTensor)
    \/ \E otherTensor \in OtherTensors : CallMultiply(otherTensor)
    \/ \E otherTensor \in OtherTensors, axis \in Axes :
         CallConcatenate(otherTensor, axis)
    \/ \E otherTensors \in StackedTensors, axis \in Axes :
         CallStack(otherTensors, axis)
    \/ \E bounds \in Slices : CallSlice(bounds[1], bounds[2])
    \/ \E pattern \in PerceivedPatterns : CallPerceive(pattern)
    \/ \E withResult \in BOOLEAN : TensorReturn(withResult)

SpecTensor == InitTensor /\ [][NextTensor]_vars

\* coordinates has one component per dimension of t, each within it.
ValidCoordinates(t, coordinates) ==
    /\ Len(coordinates) = Len(t.shape)
    /\ \A i \in 1 .. Len(coordinates) :
         /\ ~IsNaN(t.shape[i])
         /\ coordinates[i] >= 0
         /\ coordinates[i] < t.shape[i][1]

\* data.length == product(shape), every shape component a positive whole
\* number.
WellFormed(t) ==
    /\ \A i \in 1 .. Len(t.shape) : LessThan(Num(0), t.shape[i])
    /\ Product(t.shape) = Num(Len(t.data))

\* A step in which the method op is called.
TensorCallStep(op) == tensorCall.op = "none" /\ tensorCall'.op = op

\* C15: get(coords) and set(coords, v) fail when coords has a length other
\* than the rank or a component outside its dimension, and the failing set
\* leaves every element of the buffer unchanged.
C15_InvalidCoordinatesRejected ==
    [][ ((TensorCallStep("get") \/ TensorCallStep("set"))
         /\ ~ValidCoordinates(tensor, tensorCall'.coordinates))
        => (tensorCall'.outcome.raised /\ tensor'.data = tensor.data) ]_vars

\* C16: on a tensor with as many elements as its shape says, after
\* set(c, v) with c a valid coordinate tuple, get(c) returns v.
C16_SetThenGet ==
    (tensorCall.op = "set" /\ WellFormed(tensor)
     /\ ValidCoordinates(tensor, tensorCall.coordinates))
    => get(tensor, tensorCall.coordinates).got = Some(tensorCall.value)

\* set has stored a value at [1, 1] of a 2 x 2 tensor.
C16_Witness ==
    /\ tensorCall.op = "set" /\ WellFormed(tensor)
    /\ tensor.shape = << Num(2), Num(2) >>
    /\ tensorCall.coordinates = << 1, 1 >>
    /\ tensor.data[4] = tensorCall.value
    /\ tensor.data[2] # tensorCall.value

\* C17: every tensor reached from well-formed tensors by perceive,
\* transpose, normalize, add, multiply, concatenate, stack and slice has
\* data.length == product(shape) with every shape component positive.
C17_ShapeInvariant ==
    /\ WellFormed(tensor)
    /\ IsSome(tensorCall.outcome.result)
         => WellFormed(tensorCall.outcome.result[1])

\* The two shapes differ in rank or in a dimension other than axis.
ShapeMismatch(shape, otherShape, axis) ==
    \/ Len(shape) # Len(otherShape)
    \/ \E i \in 1 .. Len(shape) : i # axis + 1 /\ shape[i] # otherShape[i]

\* C18: concatenate(other, axis) fails when the two tensors differ in rank
\* or in a dimension other than axis, producing no tensor and changing
\* neither operand.
C18_ConcatenateRejectsMismatch ==
    [][ (TensorCallStep("concatenate")
         /\ ShapeMismatch(tensor.shape,
                          tensorCall'.outcome.other[1].shape, tensorCall'.axis))
        => /\ tensorCall'.outcome.raised
           /\ tensorCall'.outcome.result = None
           /\ tensor' = tensor ]_vars

\* The elements of data are numbers, all the same.
AllEqual(data) ==
    /\ Len(data) > 0
    /\ \A k \in 1 .. Len(data) : ~IsNaN(data[k]) /\ data[k] = data[1]

\* C19: normalize on a tensor whose elements are all equal fails or returns
\* a tensor of zeros, and never one that holds a NaN.
C19_DegenerateRange ==
    (tensorCall.op = "normalize" /\ AllEqual(tensor.data))
    => \/ tensorCall.outcome.raised
       \/ \A k \in 1 .. Len(tensorCall.outcome.result[1].data) :
            tensorCall.outcome.result[1].data[k] = Num(0)

\* The elements of data are numbers with max > min.
HasRange(data) ==
    /\ Len(data) > 0
    /\ \A k \in 1 .. Len(data) : ~IsNaN(data[k])
    /\ \E k, n \in 1 .. Len(data) : data[k][1] < data[n][1]

RECURSIVE Tuples(_)
Tuples(shape) ==
    IF Len(shape) = 0 THEN { << >> }
    ELSE { << i >> \o rest : i \in 0 .. shape[1][1] - 1,
                             rest \in Tuples(Tail(shape)) }

Reversed(seq) == [ k \in 1 .. Len(seq) |-> seq[Len(seq) + 1 - k] ]

\* C21: transpose of a well-formed tensor T of any rank returns a tensor of
\* shape reverse(T.shape) in which get(reverse(c)) is T.get(c) for every
\* valid coordinate tuple c.
C21_TransposeReversesAxes ==
    (tensorCall.op = "transpose" /\ WellFormed(tensor))
    => /\ ~tensorCall.outcome.raised
       /\ LET result == tensorCall.outcome.result[1]
          IN  /\ result.shape = Reversed(tensor.shape)
              /\ \A c \in Tuples(tensor.shape) :
                   get(result, Reversed(c)).got = get(tensor, c).got

\* C22: for a well-formed 2-D tensor T, the transpose of the tensor that
\* T.transpose() returned has T's shape and T's data.
C22_TransposeInvolution ==
    (tensorCall.op = "transpose" /\ WellFormed(tensor)
     /\ Len(tensor.shape) = 2)
    => /\ ~tensorCall.outcome.raised
       /\ LET twice == transpose(tensorCall.outcome.result[1])
          IN  /\ ~twice.raised
              /\ twice.result[1].shape = tensor.shape
              /\ twice.result[1].data = tensor.data

\* r is the sum of x and y (NaN when either is).
SumOf(x, y, r) ==
    IF IsNaN(x) \/ IsNaN(y) THEN IsNaN(r) ELSE r = Num(x[1] + y[1])

\* r is the product of x and y at the resolution of the elements (NaN when
\* either is).
ProductOf(x, y, r) ==
    IF IsNaN(x) \/ IsNaN(y) THEN IsNaN(r)
    ELSE /\ ~IsNaN(r)
         /\ Unit * r[1] <= x[1] * y[1]
         /\ x[1] * y[1] < Unit * (r[1] + 1)

\* C23: add and multiply fail when the two tensors differ in rank or in any
\* dimension, producing no tensor and leaving both operands as they were;
\* on well-formed operands of identical shape they return a tensor of that
\* shape whose element i is the sum, or the product, of the operands'
\* elements i.
C23_ElementwiseRequiresSameShape ==
    [][ (TensorCallStep("add") \/ TensorCallStep("multiply"))
        => LET other == tensorCall'.passed[1]
               out == tensorCall'.outcome
           IN  /\ tensor' = tensor
               /\ out.other = Some(other)
               /\ tensor.shape # other.shape
                    => out.raised /\ out.result = None
               /\ (tensor.shape = other.shape
                   /\ WellFormed(tensor) /\ WellFormed(other))
                    => /\ ~out.raised
                       /\ out.result[1].shape = tensor.shape
                       /\ Len(out.result[1].data) = Len(tensor.data)
                       /\ \A k \in 1 .. Len(tensor.data) :
                            IF tensorCall'.op = "add"
                            THEN SumOf(tensor.data[k], other.data[k],
                                       out.result[1].data[k])
                            ELSE ProductOf(tensor.data[k], other.data[k],
                                           out.result[1].data[k]) ]_vars

\* multiply has returned the elementwise product of two 2 x 2 tensors with
\* different elements.
C23_Witness ==
    /\ tensorCall.op = "multiply" /\ ~tensorCall.outcome.raised
    /\ tensor.shape = << Num(2), Num(2) >>
    /\ tensorCall.passed = << Matrix >>
    /\ tensor.data[2] # tensor.data[3]
    /\ tensorCall.outcome.result[1].data[3] # tensor.data[3]
    /\ tensorCall.outcome.result[1].data[3] # Num(0)

\* The methods that derive a tensor from their operands.
DerivingMethods ==
    { "transpose", "normalize", "add", "multiply", "concatenate" }

C25_ConcatenateAlongAxis ==
    LET other == tensorCall.passed[1]
        axis == tensorCall.axis
        out == tensorCall.outcome
    IN  (/\ tensorCall.op = "concatenate"
         /\ axis >= 0 /\ axis < Len(tensor.shape)
         /\ WellFormed(tensor) /\ WellFormed(other)
         /\ ~ShapeMismatch(tensor.shape, other.shape, axis))
        => /\ ~out.raised
           /\ out.result[1].shape =
                [ tensor.shape EXCEPT ![axis + 1] =
                    Num(@[1] + other.shape[axis + 1][1]) ]
           /\ \A c \in Tuples(out.result[1].shape) :
                get(out.result[1], c).got =
                  IF c[axis + 1] < tensor.shape[axis + 1][1]
                  THEN get(tensor, c).got
                  ELSE get(other,
                           [ c EXCEPT ![axis + 1] =
                               @ - tensor.shape[axis + 1][1] ]).got

\* The place of coordinates in row-major order: each component weighs the
\* product of the dimensions after it.
RECURSIVE RowMajor(_, _)
RowMajor(shape, coordinates) ==
    IF Len(coordinates) = 0 THEN 0
    ELSE coordinates[1] * Product(Tail(shape))[1]
         + RowMajor(Tail(shape), Tail(coordinates))

\* C29: on a well-formed tensor of shape S coordinatesToIndex maps the
\* valid coordinate tuples one-to-one onto 0..product(S)-1 in row-major
\* order, so that set(c, v) with c valid writes v to one element, leaves
\* every other element as it was, and leaves get(c') unchanged for every
\* valid c' other than c.
C29_SetChangesOneElement ==
    [][ (TensorCallStep("set") /\ WellFormed(tensor)
         /\ ValidCoordinates(tensor, tensorCall'.coordinates))
        => LET c == tensorCall'.coordinates
               index(cc) == coordinatesToIndex(tensor, cc)
           IN  /\ \A cc \in Tuples(tensor.shape) :
                    index(cc) = Num(RowMajor(tensor.shape, cc))
               /\ { index(cc) : cc \in Tuples(tensor.shape) }
                    = { Num(k) : k \in 0 .. Len(tensor.data) - 1 }
               /\ Cardinality(Tuples(tensor.shape)) = Len(tensor.data)
               /\ tensor'.data[index(c)[1] + 1] = tensorCall'.value
               /\ \A k \in 1 .. Len(tensor.data) :
                    k # index(c)[1] + 1 => tensor'.data[k] = tensor.data[k]
               /\ \A cc \in Tuples(tensor.shape) :
                    cc # c => get(tensor', cc).got = get(tensor, cc).got ]_vars

\* set has stored a value at [1, 0, 0] of a 10 x 10 x 10 tensor, the
\* element after the first hundred.
C29_Witness ==
    /\ tensorCall.op = "set" /\ WellFormed(tensor)
    /\ Len(tensor.shape) = 3
    /\ tensorCall.coordinates = << 1, 0, 0 >>
    /\ tensor.data[101] = tensorCall.value
    /\ tensor.data[100] # tensorCall.value
    /\ tensor.data[102] # tensorCall.value

\* C28: a chooseAction call leaves the table with the keys and the values
\* it had, also when keys it looked up were absent.
C28_SelectionLeavesTable ==
    [][ (lastCall.op = "none" /\ lastCall'.op = "chooseAction")
        => /\ DOMAIN qismeValues' = DOMAIN qismeValues
           /\ \A k \in DOMAIN qismeValues : qismeValues'[k] = qismeValues[k]
      ]_vars

\* chooseAction has returned an action on a table that holds the key of
\* one of the actions of the state and lacks the key of another.
C28_Witness ==
    /\ lastCall.op = "chooseAction" /\ ~lastCall.raised
    /\ \E a, b \in Actions :
         /\ generateStateActionKey(lastCall.s, a).key \in DOMAIN qismeValues
         /\ generateStateActionKey(lastCall.s, b).key \notin DOMAIN qismeValues

\* C26: every write to a table by a driving loop is made by updateQISMEL
\* after that cycle's chooseAction returned, to the key of (s, a) with s the
\* state passed to that cycle's chooseAction and a the action it returned,
\* and each cycle writes at most once.  In steps: the action a loop holds
\* is the one chooseAction returned on the state it holds; both stay as
\* they are until the cycle's update; a step that changes a table is the
\* update of one loop awaiting its environment, and it sets the key of that
\* state and that action and no other; a loop has written no more often
\* than it had selected before the write.
C26_LoopWritesSelectedKey ==
    [][ /\ \A l \in Loops :
             (selections'[l] = selections[l] + 1 /\ pc'[l] = "chosen")
             => action'[l] =
                  chooseAction(IF l \in AGILoops THEN qismeValues'
                               ELSE mainQismeValues',
                               currentState'[l][1]).action
        /\ \A l \in Loops :
             (pc[l] \in { "chosen", "step" } /\ pc'[l] \in { "chosen", "step" }
              /\ selections'[l] = selections[l])
             => action'[l] = action[l] /\ currentState'[l] = currentState[l]
        /\ mainQismeValues' = mainQismeValues
        /\ (qismeValues' # qismeValues \/ history' # history)
             => \E l \in AGILoops :
                  LET key == KeyOf(currentState[l][1], action[l])
                  IN  /\ pc[l] = "step"
                      /\ Len(history') = Len(history) + 1
                      /\ SubSeq(history', 1, Len(history)) = history
                      /\ history'[Len(history')].by = l
                      /\ history'[Len(history')].key = key
                      /\ DOMAIN qismeValues' = DOMAIN qismeValues \cup { key }
                      /\ \A k \in DOMAIN qismeValues \ { key } :
                           qismeValues'[k] = qismeValues[k]
                      /\ WritesBy(history', l) <= selections[l]
      ]_vars

\* A loop has written the key of the state it selected on and of an action
\* other than the first of the action set, chosen because another loop's
\* write had lowered the value of the first.
C26_Witness ==
    \E l \in AGILoops :
        /\ Len(history) = 2
        /\ history[2].by = l /\ history[1].by # l
        /\ \E a \in Actions \ { possibleActions[1] } :
             history[2].key = KeyOf(StateA, a)
        /\ history[1].key = KeyOf(StateA, possibleActions[1])

\* C27: an invocation of AGI.run awaits perception once, before its first
\* cycle, and the state on which cycle n+1 selects is the nextState that
\* cycle n's environment step returned and that cycle n's updateQISMEL was
\* given as sPrime.  In steps: a loop past its perception never awaits it
\* again and a loop awaiting it has selected nothing; a step in which a
\* loop makes a selection after its first is the step of its update, whose
\* sPrime is the state the loop holds from then on.
C27_NextStateCarried ==
    [][ \A l \in AGILoops :
          /\ pc[l] = "perceive" => selections[l] = 0
          /\ pc[l] # "perceive" => pc'[l] # "perceive"
          /\ (selections[l] >= 1 /\ selections'[l] = selections[l] + 1)
             => /\ Len(history') = Len(history) + 1
                /\ history'[Len(history')].by = l
                /\ currentState'[l] = Some(history'[Len(history')].sPrime)
      ]_vars

\* A loop that made its first selection on one state has made its second
\* on another, the sPrime of its update.
C27_Witness ==
    \E l \in AGILoops :
        /\ selections[l] = 2
        /\ Len(history) = 1 /\ history[1].by = l
        /\ \E a \in Actions : history[1].key = KeyOf(StateA, a)
        /\ history[1].sPrime = StateB
        /\ currentState[l] = Some(StateB)
        /\ pc[l] = "chosen"

----------------------------------------------------------------------------
(* A circuit built and simulated (SpecCircuit): a program adds qubits and  *)
(* gates to a circuit in any order and hands it to simulate at any point.  *)

\* circuit.addQubit(qubit), each qubit added once.
addQubit(qubit) ==
    /\ \A i \in 1 .. Len(circuit.qubits) : circuit.qubits[i] # qubit
    /\ circuit' = [ circuit EXCEPT !.qubits = Append(@, qubit) ]
    /\ UNCHANGED << simulation, engineVars, keyVars, pairVars, tensorVars >>

\* circuit.addGate(gate, qubits)
addGate(gate, qubits) ==
    /\ Len(circuit.gates) < MaxGates
    /\ circuit' = [ circuit EXCEPT
                      !.gates = Append(@, [ gate |-> gate, qubits |-> qubits ]) ]
    /\ UNCHANGED << simulation, engineVars, keyVars, pairVars, tensorVars >>

\* simulator.simulate(circuit)
Simulate ==
    /\ simulation' = [ made |-> TRUE, circuit |-> circuit,
                       finalState |-> simulate(circuit) ]
    /\ UNCHANGED << circuit, engineVars, keyVars, pairVars, tensorVars >>

NextCircuit ==
    \/ \E qubit \in Qubits : addQubit(qubit)
    \/ \E g \in GateApplications : addGate(g.gate, g.qubits)
    \/ Simulate

SpecCircuit == Init /\ [][NextCircuit]_vars

\* Every gate of c acts on qubits of c.
OnOwnQubits(c) ==
    \A i \in 1 .. Len(c.gates) :
        \A k \in 1 .. Len(c.gates[i].qubits) :
            IndexOf(c.qubits, c.gates[i].qubits[k]) >= 0

\* The 2 x 2 matrix applied to every pair of amplitudes that differ in bit
\* q: new0 = m00 a0 + m01 a1, new1 = m10 a0 + m11 a1.
MatrixOnPairs(v, matrix, q) ==
    [ k \in 1 .. Len(v) |->
        IF BitAt(k - 1, q) = 0
        THEN ComplexAdd(ComplexMultiply(matrix[1][1], v[k]),
                        ComplexMultiply(matrix[1][2], v[k + 2 ^ q]))
        ELSE ComplexAdd(ComplexMultiply(matrix[2][1], v[k - 2 ^ q]),
                        ComplexMultiply(matrix[2][2], v[k])) ]

\* The two target amplitudes of every pair whose control bit is 1 exchanged.
ExchangedOnControl(v, control, target) ==
    [ k \in 1 .. Len(v) |->
        IF BitAt(k - 1, control) = 1
        THEN IF BitAt(k - 1, target) = 1
             THEN v[k - 2 ^ target] ELSE v[k + 2 ^ target]
        ELSE v[k] ]

\* The gates of c from gate i on, applied to v in insertion order.
RECURSIVE GatesApplied(_, _, _)
GatesApplied(c, v, i) ==
    IF i > Len(c.gates) THEN v
    ELSE LET g == c.gates[i]
         IN  GatesApplied(c,
                 IF Len(g.qubits) = 1
                 THEN MatrixOnPairs(v, g.gate.matrix,
                                    IndexOf(c.qubits, g.qubits[1]))
                 ELSE ExchangedOnControl(v, IndexOf(c.qubits, g.qubits[1]),
                                         IndexOf(c.qubits, g.qubits[2])),
                 i + 1)

\* C30: for a circuit of X, Z and CNOT gates on its own qubits, simulate
\* returns the state vector obtained from |0...0> by applying the gates in
\* insertion order, a single-qubit gate as its 2 x 2 matrix on every pair of
\* amplitudes and CNOT as the exchange of the two target amplitudes of
\* every pair whose control bit is 1.
C30_SimulateAppliesGates ==
    (simulation.made /\ OnOwnQubits(simulation.circuit))
    => simulation.finalState =
         GatesApplied(simulation.circuit,
                      [ k \in 1 .. 2 ^ Len(simulation.circuit.qubits) |->
                          IF k = 1 THEN Complex(1, 0) ELSE Complex(0, 0) ],
                      1)

====
